---- MODULE Spec2Model ----
(***************************************************************************)
(* Model of the struct_to_string derive macro (src/src/lib.rs).            *)
(*                                                                         *)
(* The macro walks the fields of a struct, renders every field's type in   *)
(* six languages (Rust, TypeScript, Python, Go, Java, C#), accumulates one *)
(* line per field and language, and finally generates six accessors that   *)
(* wrap the accumulated lines into a type definition block.                *)
(*                                                                         *)
(* Strings are TLA+ strings; a syn::Type is a record tagged by k:          *)
(*   Path      [k, segs, angle, args]   path segments, generic arguments   *)
(*                                      of the last segment                *)
(*   Array     [k, elem, len]           len is an expression [e, text]     *)
(*   Tuple     [k, elems]                                                  *)
(*   Reference [k, elem]                one of the types no renderer knows *)
(* A generic argument is a type or [k |-> "Lifetime", ident].              *)
(***************************************************************************)
EXTENDS Integers, Sequences, FiniteSets, TLC

VARIABLES
    name,            \* ast.ident: the struct's name
    data_kind,       \* ast.data: "Struct", or "Enum" (no field is visited)
    fields,          \* data_struct.fields: sequence of [named, ident, ty]
    idx,             \* number of fields the loop has consumed
    rust_fields, go_fields, python_fields, ts_fields, java_fields, csharp_fields,
    locals,          \* the loop body's values for the field visited last
    pc,              \* "loop", "done" or "panicked"
    panic_msg,       \* the panic's message once pc = "panicked"
    impl,            \* the string literals spliced into the generated impl
    returned,        \* the accessor called last, and the string it returned
    render           \* one renderer's call stack, a step per call and return

vars == <<name, data_kind, fields, idx, rust_fields, go_fields, python_fields,
          ts_fields, java_fields, csharp_fields, locals, pc, panic_msg, impl,
          returned, render>>

(***************************************************************************)
(* Bounds of the model.                                                    *)
(***************************************************************************)
MaxFields == 2
MaxDepth == 2

(***************************************************************************)
(* String helpers: what the std library calls of the source do.            *)
(***************************************************************************)
RECURSIVE Join(_, _)
\* [String]::join(sep)
Join(strs, sep) ==
    IF Len(strs) = 0 THEN ""
    ELSE IF Len(strs) = 1 THEN strs[1]
    ELSE strs[1] \o sep \o Join(Tail(strs), sep)

RECURSIVE ReplaceSpaces(_)
\* str::replace(" ", ""): every space character is dropped
ReplaceSpaces(s) ==
    IF Len(s) = 0 THEN ""
    ELSE LET c == SubSeq(s, 1, 1)
             rest == ReplaceSpaces(SubSeq(s, 2, Len(s)))
         IN  IF c = " " THEN rest ELSE c \o rest

EndsWith(s, pat) ==
    /\ Len(pat) <= Len(s)
    /\ SubSeq(s, Len(s) - Len(pat) + 1, Len(s)) = pat

StartsWith(s, pat) ==
    /\ Len(pat) <= Len(s)
    /\ SubSeq(s, 1, Len(pat)) = pat

Contains(s, pat) ==
    \E i \in 1..(Len(s) - Len(pat) + 1) : SubSeq(s, i, i + Len(pat) - 1) = pat

RECURSIVE TrimEndMatches(_, _)
\* str::trim_end_matches(pat): the suffix pat is removed as often as it occurs
TrimEndMatches(s, pat) ==
    IF Len(pat) > 0 /\ EndsWith(s, pat)
    THEN TrimEndMatches(SubSeq(s, 1, Len(s) - Len(pat)), pat)
    ELSE s

RECURSIVE StripLeadingZeros(_)
StripLeadingZeros(digits) ==
    IF Len(digits) > 1 /\ SubSeq(digits, 1, 1) = "0"
    THEN StripLeadingZeros(SubSeq(digits, 2, Len(digits)))
    ELSE digits

DigitValue(c) ==
    CASE c = "0" -> 0 [] c = "1" -> 1 [] c = "2" -> 2 [] c = "3" -> 3
      [] c = "4" -> 4 [] c = "5" -> 5 [] c = "6" -> 6 [] c = "7" -> 7
      [] c = "8" -> 8 [] c = "9" -> 9

\* a <= b for two digit strings of the same length: they are equal, or a
\* has the smaller digit where they first differ
DigitsLessEq(a, b) ==
    \/ a = b
    \/ \E i \in 1..Len(a) :
          /\ SubSeq(a, 1, i - 1) = SubSeq(b, 1, i - 1)
          /\ DigitValue(SubSeq(a, i, i)) < DigitValue(SubSeq(b, i, i))

UsizeMaxDigits == "18446744073709551615"

\* LitInt::base10_parse::<usize>(): [ok, s]; s is the value as usize prints it
Base10ParseUsize(digits) ==
    LET d == StripLeadingZeros(digits)
    IN  IF Len(d) < Len(UsizeMaxDigits)
           \/ (Len(d) = Len(UsizeMaxDigits) /\ DigitsLessEq(d, UsizeMaxDigits))
        THEN [ok |-> TRUE, s |-> d]
        ELSE [ok |-> FALSE, s |-> "called Result::unwrap() on an Err value"]

(***************************************************************************)
(* syn::Type values.                                                       *)
(***************************************************************************)
Path(segs) == [k |-> "Path", segs |-> segs, angle |-> FALSE, args |-> <<>>]
Generic(segs, args) == [k |-> "Path", segs |-> segs, angle |-> TRUE, args |-> args]
Ident(id) == Path(<<id>>)
OptionOf(t) == Generic(<<"Option">>, <<t>>)
VecOf(t) == Generic(<<"Vec">>, <<t>>)
Array(t, len) == [k |-> "Array", elem |-> t, len |-> len]
Tuple(ts) == [k |-> "Tuple", elems |-> ts]
Reference(t) == [k |-> "Reference", elem |-> t]
Lifetime(id) == [k |-> "Lifetime", ident |-> id]
LitInt(text) == [e |-> "LitInt", text |-> text]
LitOther(text) == [e |-> "LitOther", text |-> text]
ExprPath(text) == [e |-> "Path", text |-> text]

\* type_path.path.segments.last().unwrap().ident
LastSegment(ty) == ty.segs[Len(ty.segs)]

\* the first generic argument when it is GenericArgument::Type
HasInnerType(ty) ==
    /\ ty.angle
    /\ Len(ty.args) > 0
    /\ ty.args[1].k # "Lifetime"

InnerType(ty) == ty.args[1]

(***************************************************************************)
(* quote! { #field_type }.to_string(): the type's tokens, one space        *)
(* between two tokens.  The macro removes every space afterwards.          *)
(***************************************************************************)
RECURSIVE TokenString(_)
TokenString(ty) ==
    LET TokenStrings(ts) == [i \in 1..Len(ts) |-> TokenString(ts[i])]
    IN  CASE ty.k = "Path" ->
               Join(ty.segs, " :: ")
               \o (IF ty.angle
                   THEN " < " \o Join(TokenStrings(ty.args), " , ") \o " >"
                   ELSE "")
          [] ty.k = "Lifetime" -> "'" \o ty.ident
          [] ty.k = "Array" ->
               "[ " \o TokenString(ty.elem) \o " ; " \o ty.len.text \o " ]"
          [] ty.k = "Tuple" ->
               IF Len(ty.elems) = 0 THEN "( )"
               ELSE IF Len(ty.elems) = 1
               THEN "( " \o TokenString(ty.elems[1]) \o " , )"
               ELSE "( " \o Join(TokenStrings(ty.elems), " , ") \o " )"
          [] ty.k = "Reference" -> "& " \o TokenString(ty.elem)

\* field_type_tokens
FieldTypeTokens(ty) == ReplaceSpaces(TokenString(ty))

\* is_optional that looks for Option anywhere in the type's tokens
IsOptionalFieldAnywhere(ty) == Contains(TokenString(ty), "Option")

\* is_optional
IsOptionalField(ty) ==
    IF ty.k = "Path" THEN LastSegment(ty) = "Option" ELSE FALSE

(***************************************************************************)
(* rust_type_to_ts_type                                                    *)
(***************************************************************************)
\* TsPrimitive that renders every unknown name as any
TsPrimitiveUnknownAny(last_segment) ==
    CASE last_segment \in {"i32", "u32", "i64", "u64"} -> "number"
      [] last_segment \in {"f32", "f64"} -> "number"
      [] last_segment = "bool" -> "boolean"
      [] last_segment = "String" -> "string"
      [] last_segment = "char" -> "string"
      [] OTHER -> "any"

TsPrimitive(last_segment) ==
    CASE last_segment \in {"i32", "u32", "i64", "u64"} -> "number"
      [] last_segment \in {"f32", "f64"} -> "number"
      [] last_segment = "bool" -> "boolean"
      [] last_segment = "String" -> "string"
      [] last_segment = "char" -> "string"
      [] OTHER -> last_segment

\* TsVec with the brackets in front, as Go spells a slice
TsVecPrefixed(inner_type) == "[]" \o inner_type

\* format!("{}[]", ..) of the Vec arm
TsVec(inner_type) == inner_type \o "[]"

RECURSIVE rust_type_to_ts_type(_)
rust_type_to_ts_type(ty) ==
    LET Map(ts) == [i \in 1..Len(ts) |-> rust_type_to_ts_type(ts[i])]
    IN  CASE ty.k = "Path" ->
               LET last_segment == LastSegment(ty)
               IN  CASE last_segment = "Option" ->
                          IF HasInnerType(ty)
                          THEN rust_type_to_ts_type(InnerType(ty)) \o " | null"
                          ELSE "any"
                     [] last_segment = "Vec" ->
                          IF HasInnerType(ty)
                          THEN TsVec(rust_type_to_ts_type(InnerType(ty)))
                          ELSE "any[]"
                     [] OTHER -> TsPrimitive(last_segment)
          [] ty.k = "Array" -> rust_type_to_ts_type(ty.elem) \o "[]"
          [] ty.k = "Tuple" -> "[" \o Join(Map(ty.elems), ", ") \o "]"
          [] OTHER -> "any"

(***************************************************************************)
(* rust_type_to_python_type                                                *)
(***************************************************************************)
PythonPrimitive(last_segment) ==
    CASE last_segment \in {"i32", "u32", "i64", "u64"} -> "int"
      [] last_segment \in {"f32", "f64"} -> "float"
      [] last_segment = "bool" -> "bool"
      [] last_segment = "String" -> "str"
      [] last_segment = "char" -> "str"
      [] OTHER -> last_segment

\* the fallback of the Option arm, wrapped as an Option with an argument is
PythonOptionFallbackWrapped == "Optional[any]"

\* what the Option arm yields when Option has no type argument
PythonOptionFallback == "any"

RECURSIVE rust_type_to_python_type(_)
rust_type_to_python_type(ty) ==
    LET Map(ts) == [i \in 1..Len(ts) |-> rust_type_to_python_type(ts[i])]
    IN  CASE ty.k = "Path" ->
               LET last_segment == LastSegment(ty)
               IN  CASE last_segment = "Option" ->
                          IF HasInnerType(ty)
                          THEN "Optional[" \o rust_type_to_python_type(InnerType(ty)) \o "]"
                          ELSE PythonOptionFallback
                     [] last_segment = "Vec" ->
                          IF HasInnerType(ty)
                          THEN "List[" \o rust_type_to_python_type(InnerType(ty)) \o "]"
                          ELSE "any[]"
                     [] OTHER -> PythonPrimitive(last_segment)
          [] ty.k = "Array" -> "List[" \o rust_type_to_python_type(ty.elem) \o "]"
          [] ty.k = "Tuple" -> "Tuple[" \o Join(Map(ty.elems), ", ") \o "]"
          [] OTHER -> "any"

(***************************************************************************)
(* rust_type_to_go_type: the one renderer that can panic.  It returns      *)
(* [ok, s]: the rendering when ok, the panic's message otherwise.          *)
(***************************************************************************)
Ok(s) == [ok |-> TRUE, s |-> s]
Panic(msg) == [ok |-> FALSE, s |-> msg]

\* the first panic of a sequence of results, in evaluation order
FirstPanic(rs) ==
    rs[CHOOSE i \in 1..Len(rs) : ~rs[i].ok /\ \A j \in 1..(i - 1) : rs[j].ok]

GoPrimitive(last_segment) ==
    CASE last_segment = "i8" -> "int8"
      [] last_segment = "u8" -> "uint8"
      [] last_segment = "i16" -> "int16"
      [] last_segment = "u16" -> "uint16"
      [] last_segment = "i32" -> "int32"
      [] last_segment = "u32" -> "uint32"
      [] last_segment = "i64" -> "int64"
      [] last_segment = "u64" -> "uint64"
      [] last_segment = "i128" -> "big.Int"
      [] last_segment = "u128" -> "big.Int"
      [] last_segment = "f32" -> "float32"
      [] last_segment = "f64" -> "float64"
      [] last_segment = "bool" -> "bool"
      [] last_segment = "String" -> "string"
      [] last_segment = "char" -> "rune"
      [] last_segment = "&str" -> "string"
      [] OTHER -> last_segment

GoTupleMarker ==
    "struct{} // CANNOT CONVERT THIS TO THE GO PROGRAMMING LANGUAGE. TUPLES ARE UNSUPPORTED BY GO: "

\* GoArray that drops the length, which renders a slice
GoArrayWithoutLength(array_length, inner_type) == "[]" \o inner_type

\* format!("[{}]{}", array_length, inner_type)
GoArray(array_length, inner_type) == "[" \o array_length \o "]" \o inner_type

\* GoTuple that leaves the element types out
GoTupleWithoutElements(types) == GoTupleMarker

\* the placeholder of a tuple, with the rendered element types
GoTuple(types) == GoTupleMarker \o "(" \o Join(types, ", ") \o ")"

\* array_length that takes an integer literal as written, whatever its value
GoArrayLengthUnparsed(len) ==
    CASE len.e = "LitInt" -> Ok(len.text)
      [] len.e = "LitOther" -> Panic("Invalid array length expression: " \o len.text)
      [] OTHER -> Panic("Invalid array length expression:")

\* array_length
GoArrayLength(len) ==
    CASE len.e = "LitInt" ->
            LET parsed == Base10ParseUsize(len.text)
            IN  IF parsed.ok THEN Ok(parsed.s) ELSE Panic(parsed.s)
      [] len.e = "LitOther" -> Panic("Invalid array length expression: " \o len.text)
      [] OTHER -> Panic("Invalid array length expression:")

RECURSIVE rust_type_to_go_type(_)
rust_type_to_go_type(ty) ==
    LET Map(ts) == [i \in 1..Len(ts) |-> rust_type_to_go_type(ts[i])]
        Strs(rs) == [i \in 1..Len(rs) |-> rs[i].s]
    IN  CASE ty.k = "Path" ->
               LET last_segment == LastSegment(ty)
               IN  CASE last_segment = "Option" ->
                          IF HasInnerType(ty)
                          THEN LET inner == rust_type_to_go_type(InnerType(ty))
                               IN  IF inner.ok THEN Ok("*" \o inner.s) ELSE inner
                          ELSE Ok("any")
                     [] last_segment = "Vec" ->
                          IF HasInnerType(ty)
                          THEN LET inner == rust_type_to_go_type(InnerType(ty))
                               IN  IF inner.ok THEN Ok("[]" \o inner.s) ELSE inner
                          ELSE Ok("any[]")
                     [] OTHER -> Ok(GoPrimitive(last_segment))
          [] ty.k = "Array" ->
               LET inner_type == rust_type_to_go_type(ty.elem)
                   array_length == GoArrayLength(ty.len)
               IN  IF ~inner_type.ok THEN inner_type
                   ELSE IF ~array_length.ok THEN array_length
                   ELSE Ok(GoArray(array_length.s, inner_type.s))
          [] ty.k = "Tuple" ->
               LET types == Map(ty.elems)
               IN  IF \E i \in 1..Len(types) : ~types[i].ok
                   THEN FirstPanic(types)
                   ELSE Ok(GoTuple(Strs(types)))
          [] OTHER -> Ok("any")

(***************************************************************************)
(* rust_type_to_java_type                                                  *)
(***************************************************************************)
\* convert_java_primitive_type_to_wrapper_class without the arm of char
JavaWrapperClassMissingChar(inner_type) ==
    CASE inner_type = "byte" -> "Byte"
      [] inner_type = "short" -> "Short"
      [] inner_type = "int" -> "Integer"
      [] inner_type = "long" -> "Long"
      [] inner_type = "float" -> "Float"
      [] inner_type = "double" -> "Double"
      [] inner_type = "boolean" -> "Boolean"
      [] OTHER -> inner_type

convert_java_primitive_type_to_wrapper_class(inner_type) ==
    CASE inner_type = "byte" -> "Byte"
      [] inner_type = "short" -> "Short"
      [] inner_type = "int" -> "Integer"
      [] inner_type = "long" -> "Long"
      [] inner_type = "float" -> "Float"
      [] inner_type = "double" -> "Double"
      [] inner_type = "char" -> "Character"
      [] inner_type = "boolean" -> "Boolean"
      [] OTHER -> inner_type

\* JavaPrimitive with u64 in the 64-bit signed type, as u32 and i64 are
JavaPrimitiveU64Long(last_segment) ==
    CASE last_segment = "i8" -> "byte"
      [] last_segment = "u8" -> "short"
      [] last_segment = "i16" -> "short"
      [] last_segment = "u16" -> "int"
      [] last_segment = "i32" -> "int"
      [] last_segment = "u32" -> "long"
      [] last_segment = "i64" -> "long"
      [] last_segment = "u64" -> "long"
      [] last_segment = "i128" -> "BigInteger"
      [] last_segment = "u128" -> "BigInteger"
      [] last_segment = "f32" -> "float"
      [] last_segment = "f64" -> "double"
      [] last_segment = "bool" -> "boolean"
      [] last_segment = "String" -> "String"
      [] last_segment = "char" -> "char"
      [] OTHER -> last_segment

JavaPrimitive(last_segment) ==
    CASE last_segment = "i8" -> "byte"
      [] last_segment = "u8" -> "short"
      [] last_segment = "i16" -> "short"
      [] last_segment = "u16" -> "int"
      [] last_segment = "i32" -> "int"
      [] last_segment = "u32" -> "long"
      [] last_segment = "i64" -> "long"
      [] last_segment = "u64" -> "BigInteger"
      [] last_segment = "i128" -> "BigInteger"
      [] last_segment = "u128" -> "BigInteger"
      [] last_segment = "f32" -> "float"
      [] last_segment = "f64" -> "double"
      [] last_segment = "bool" -> "boolean"
      [] last_segment = "String" -> "String"
      [] last_segment = "char" -> "char"
      [] OTHER -> last_segment

RECURSIVE rust_type_to_java_type(_)
rust_type_to_java_type(ty) ==
    LET Map(ts) == [i \in 1..Len(ts) |->
                      convert_java_primitive_type_to_wrapper_class(
                          rust_type_to_java_type(ts[i]))]
    IN  CASE ty.k = "Path" ->
               LET last_segment == LastSegment(ty)
               IN  CASE last_segment = "Option" ->
                          IF HasInnerType(ty)
                          THEN convert_java_primitive_type_to_wrapper_class(
                                   rust_type_to_java_type(InnerType(ty)))
                          ELSE "Object"
                     [] last_segment = "Vec" ->
                          IF HasInnerType(ty)
                          THEN "List<"
                               \o convert_java_primitive_type_to_wrapper_class(
                                      rust_type_to_java_type(InnerType(ty)))
                               \o ">"
                          ELSE "List<Object>"
                     [] OTHER -> JavaPrimitive(last_segment)
          [] ty.k = "Array" -> rust_type_to_java_type(ty.elem) \o "[]"
          [] ty.k = "Tuple" -> "Tuple<" \o Join(Map(ty.elems), ", ") \o ">"
          [] OTHER -> "Object"

(***************************************************************************)
(* rust_type_to_csharp_type                                                *)
(***************************************************************************)
CsharpPrimitive(last_segment) ==
    CASE last_segment = "i8" -> "sbyte"
      [] last_segment = "u8" -> "byte"
      [] last_segment = "i16" -> "short"
      [] last_segment = "u16" -> "ushort"
      [] last_segment = "i32" -> "int"
      [] last_segment = "u32" -> "uint"
      [] last_segment = "i64" -> "long"
      [] last_segment = "u64" -> "ulong"
      [] last_segment = "i128" -> "BigInteger"
      [] last_segment = "u128" -> "BigInteger"
      [] last_segment = "f32" -> "float"
      [] last_segment = "f64" -> "double"
      [] last_segment = "bool" -> "bool"
      [] last_segment = "String" -> "string"
      [] last_segment = "char" -> "char"
      [] OTHER -> last_segment

RECURSIVE rust_type_to_csharp_type(_)
rust_type_to_csharp_type(ty) ==
    LET Map(ts) == [i \in 1..Len(ts) |-> rust_type_to_csharp_type(ts[i])]
    IN  CASE ty.k = "Path" ->
               LET last_segment == LastSegment(ty)
               IN  CASE last_segment = "Option" ->
                          IF HasInnerType(ty)
                          THEN rust_type_to_csharp_type(InnerType(ty)) \o "?"
                          ELSE "Object"
                     [] last_segment = "Vec" ->
                          IF HasInnerType(ty)
                          THEN "List<" \o rust_type_to_csharp_type(InnerType(ty)) \o ">"
                          ELSE "List<Object>"
                     [] OTHER -> CsharpPrimitive(last_segment)
          [] ty.k = "Array" -> rust_type_to_csharp_type(ty.elem) \o "[]"
          [] ty.k = "Tuple" -> "(" \o Join(Map(ty.elems), ", ") \o ")"
          [] OTHER -> "Object"

(***************************************************************************)
(* The inputs of the model: the derive input the macro is applied to.      *)
(***************************************************************************)
StructNames == {"Name", "Point"}
FieldIdents == {"a_field", "b_field", "c_field", "d_field"}

\* primitive names of the Rust language, the renderers' table keys
PrimitiveNames ==
    {"i8", "u8", "i16", "u16", "i32", "u32", "i64", "u64", "i128", "u128",
     "f32", "f64", "bool", "char", "String"}

\* path types without arguments: the primitives, str, usize and custom types
LeafTypes ==
    {Ident(p) : p \in PrimitiveNames} \cup {Ident("str"), Ident("usize"),
                                             Ident("Foo"), Ident("AnEnum")}

\* the leaves that occur below wrappers
CoreTypes ==
    {Ident("i32"), Ident("u64"), Ident("f64"), Ident("bool"), Ident("String"),
     Ident("char"), Ident("Foo")}

\* one more wrapper level around the types of ts
Wrap(ts) ==
    {OptionOf(t) : t \in ts} \cup {VecOf(t) : t \in ts}
    \cup {Array(t, LitInt("3")) : t \in ts}
    \cup {Array(t, ExprPath("N")) : t \in ts}
    \cup {Tuple(<<t, Ident("String")>>) : t \in ts}
    \cup {Tuple(<<Ident("i32"), t>>) : t \in ts}

RECURSIVE Nested(_)
\* the types of at most d wrapper levels over the core leaves
Nested(d) == IF d = 0 THEN CoreTypes ELSE CoreTypes \cup Wrap(Nested(d - 1))

\* shapes at the edge of what the renderers recognise
SpecialTypes ==
    { Path(<<"Option">>), Path(<<"Vec">>),
      Generic(<<"Option">>, <<>>), Generic(<<"Vec">>, <<>>),
      Generic(<<"Option">>, <<Lifetime("a")>>),
      Generic(<<"std", "option", "Option">>, <<Ident("i32")>>),
      Generic(<<"std", "vec", "Vec">>, <<Ident("Foo")>>),
      Path(<<"models", "Foo">>),
      Generic(<<"Foo">>, <<Ident("i32")>>),
      Generic(<<"HashMap">>, <<Ident("String"), Ident("i32")>>),
      Reference(Ident("str")),
      VecOf(Reference(Ident("str"))),
      Tuple(<<>>), Tuple(<<Ident("i32")>>),
      Tuple(<<Ident("i32"), Ident("f64"), Ident("String")>>),
      Array(Ident("i32"), LitInt("0")),
      Array(Ident("u8"), LitInt("007")),
      Array(Ident("i32"), LitInt("18446744073709551615")),
      Array(Ident("i32"), LitInt("18446744073709551616")),
      Array(Ident("i32"), LitOther("true")),
      OptionOf(Path(<<"models", "Foo">>)),
      VecOf(Generic(<<"Foo">>, <<Ident("i32")>>)) }

Types == LeafTypes \cup SpecialTypes \cup Wrap(Nested(MaxDepth - 1))

\* the field types of the structs with several fields
ShallowTypes ==
    { Ident("i32"), OptionOf(Ident("i32")), Array(Ident("i32"), LitInt("3")),
      VecOf(OptionOf(Ident("i32"))), Tuple(<<Ident("i32"), Ident("String")>>),
      Ident("Foo"), Path(<<"Option">>), Array(Ident("i32"), ExprPath("N")) }

Field(id, ty) == [named |-> TRUE, ident |-> id, ty |-> ty]
Unnamed(ty) == [named |-> FALSE, ident |-> "", ty |-> ty]

Distinct(fs) == \A i, j \in 1..Len(fs) : i # j => fs[i].ident # fs[j].ident

\* structs with named fields: up to MaxFields fields of shallow types, or one
\* field of any type
NamedFieldLists ==
    LET fs == {Field(id, ty) : id \in FieldIdents, ty \in ShallowTypes}
    IN  UNION {{l \in [1..n -> fs] : Distinct(l)} : n \in 0..MaxFields}
        \cup {<<Field("a_field", ty)>> : ty \in Types}

\* tuple structs: the fields have no ident
UnnamedFieldLists ==
    {<<Unnamed(Ident("i32"))>>, <<Unnamed(Ident("i32")), Unnamed(Ident("String"))>>}

Unset == "<unset>"

NoLocals ==
    [field_name |-> Unset, field_type |-> Ident(Unset), field_type_tokens |-> Unset, is_optional |-> FALSE,
     ts_field_name |-> Unset, ts_type |-> Unset, python_type |-> Unset,
     go_type |-> Unset, java_type |-> Unset, csharp_type |-> Unset]

NoImpl ==
    [rust_fields |-> Unset, go_fields |-> Unset, python_fields |-> Unset,
     ts_fields |-> Unset, java_fields |-> Unset, csharp_fields |-> Unset]

NoCall == [fn |-> "none", s |-> ""]

\* no renderer is traced
NoRender ==
    [lang |-> "none", stack |-> <<>>, calls |-> 0, status |-> "idle",
     result |-> Unset]

Init ==
    /\ name \in StructNames
    /\ data_kind \in {"Struct", "Enum"}
    /\ fields \in IF data_kind = "Struct"
                  THEN NamedFieldLists \cup UnnamedFieldLists
                  ELSE {<<>>}
    /\ idx = 0
    /\ rust_fields = ""
    /\ go_fields = ""
    /\ python_fields = ""
    /\ ts_fields = ""
    /\ java_fields = ""
    /\ csharp_fields = ""
    /\ locals = NoLocals
    /\ pc = "loop"
    /\ panic_msg = ""
    /\ impl = NoImpl
    /\ returned = NoCall
    /\ render = NoRender

(***************************************************************************)
(* The loop body of struct_to_string: one line per field and language.     *)
(***************************************************************************)
RustLine(field_name, field_type_tokens) ==
    "    " \o field_name \o ": " \o field_type_tokens \o ",\n"

\* ts_field_name
TsFieldName(field_name, is_optional) ==
    IF is_optional THEN field_name \o "?" ELSE field_name

TsLine(ts_field_name, ts_type) ==
    "    " \o ts_field_name \o ": " \o ts_type \o ";\n"

PythonLine(field_name, python_type) ==
    "    " \o field_name \o ": " \o python_type \o "\n"

GoLine(field_name, go_type) ==
    "    " \o field_name \o " " \o go_type \o "\n"

JavaLine(field_name, java_type) ==
    "    " \o "public" \o " " \o java_type \o " " \o field_name \o ";\n"

CsharpLine(field_name, csharp_type) ==
    "    " \o "public" \o " " \o csharp_type \o " " \o field_name \o ";\n"

\* push_str that puts the line in front of the accumulated lines
PushStrInFront(acc, line) == line \o acc

\* String::push_str
PushStr(acc, line) == acc \o line

\* the field the loop visits next
NextField == fields[idx + 1]

InLoop == pc = "loop" /\ data_kind = "Struct" /\ idx < Len(fields)

\* One iteration of the loop over data_struct.fields that runs to its end.
ProcessField ==
    /\ InLoop
    /\ NextField.named
    /\ rust_type_to_go_type(NextField.ty).ok
    /\ LET field_name == NextField.ident
           field_type == NextField.ty
           field_type_tokens == FieldTypeTokens(field_type)
           is_optional == IsOptionalField(field_type)
           ts_field_name == TsFieldName(field_name, is_optional)
           ts_type == rust_type_to_ts_type(field_type)
           python_type == rust_type_to_python_type(field_type)
           go_type == rust_type_to_go_type(field_type).s
           java_type == rust_type_to_java_type(field_type)
           csharp_type == rust_type_to_csharp_type(field_type)
       IN  /\ rust_fields' = PushStr(rust_fields, RustLine(field_name, field_type_tokens))
           /\ ts_fields' = PushStr(ts_fields, TsLine(ts_field_name, ts_type))
           /\ python_fields' = PushStr(python_fields, PythonLine(field_name, python_type))
           /\ go_fields' = PushStr(go_fields, GoLine(field_name, go_type))
           /\ java_fields' = PushStr(java_fields, JavaLine(field_name, java_type))
           /\ csharp_fields' = PushStr(csharp_fields, CsharpLine(field_name, csharp_type))
           /\ locals' = [field_name |-> field_name,
                         field_type |-> field_type,
                         field_type_tokens |-> field_type_tokens,
                         is_optional |-> is_optional,
                         ts_field_name |-> ts_field_name,
                         ts_type |-> ts_type,
                         python_type |-> python_type,
                         go_type |-> go_type,
                         java_type |-> java_type,
                         csharp_type |-> csharp_type]
    /\ idx' = idx + 1
    /\ UNCHANGED <<render, name, data_kind, fields, pc, panic_msg, impl, returned>>

\* field.ident.expect("Field name not found") on a field without ident
FieldNamePanic ==
    /\ InLoop
    /\ ~NextField.named
    /\ pc' = "panicked"
    /\ panic_msg' = "Field name not found"
    /\ UNCHANGED <<render, name, data_kind, fields, idx, rust_fields, go_fields,
                   python_fields, ts_fields, java_fields, csharp_fields, locals,
                   impl, returned>>

\* rust_type_to_go_type panics: the Rust, TypeScript and Python lines of the
\* field are pushed already, the Go, Java and C# lines never are.
GoTypePanic ==
    /\ InLoop
    /\ NextField.named
    /\ ~rust_type_to_go_type(NextField.ty).ok
    /\ LET field_name == NextField.ident
           field_type == NextField.ty
           field_type_tokens == FieldTypeTokens(field_type)
           is_optional == IsOptionalField(field_type)
           ts_field_name == TsFieldName(field_name, is_optional)
           ts_type == rust_type_to_ts_type(field_type)
           python_type == rust_type_to_python_type(field_type)
       IN  /\ rust_fields' = PushStr(rust_fields, RustLine(field_name, field_type_tokens))
           /\ ts_fields' = PushStr(ts_fields, TsLine(ts_field_name, ts_type))
           /\ python_fields' = PushStr(python_fields, PythonLine(field_name, python_type))
           /\ locals' = [field_name |-> field_name,
                         field_type |-> field_type,
                         field_type_tokens |-> field_type_tokens,
                         is_optional |-> is_optional,
                         ts_field_name |-> ts_field_name,
                         ts_type |-> ts_type,
                         python_type |-> python_type,
                         go_type |-> Unset,
                         java_type |-> Unset,
                         csharp_type |-> Unset]
    /\ pc' = "panicked"
    /\ panic_msg' = rust_type_to_go_type(NextField.ty).s
    /\ UNCHANGED <<render, name, data_kind, fields, idx, go_fields, java_fields,
                   csharp_fields, impl, returned>>

\* quote! { impl #name { ... } }: the six accumulated strings become literals
\* of the generated accessors.
Generate ==
    /\ pc = "loop"
    /\ data_kind # "Struct" \/ idx = Len(fields)
    /\ impl' = [rust_fields |-> rust_fields, go_fields |-> go_fields,
                python_fields |-> python_fields, ts_fields |-> ts_fields,
                java_fields |-> java_fields, csharp_fields |-> csharp_fields]
    /\ pc' = "done"
    /\ UNCHANGED <<render, name, data_kind, fields, idx, rust_fields, go_fields,
                   python_fields, ts_fields, java_fields, csharp_fields, locals,
                   panic_msg, returned>>

(***************************************************************************)
(* The generated accessors.                                                *)
(***************************************************************************)
\* to_rust_string without trim_end_matches
ToRustStringUntrimmed ==
    "struct " \o name \o " {\n" \o impl.rust_fields \o "\n}"

to_rust_string ==
    "struct " \o name \o " {\n" \o TrimEndMatches(impl.rust_fields, ",\n") \o "\n}"

to_go_string ==
    "type " \o name \o " struct {\n" \o impl.go_fields \o "}"

to_python_string ==
    "@dataclass_json\n@dataclass\nclass " \o name \o ":\n" \o impl.python_fields

to_typescript_string ==
    "interface " \o name \o " {\n" \o impl.ts_fields \o "}"

to_java_string ==
    "public class " \o name \o " {\n" \o impl.java_fields \o "}"

to_csharp_string ==
    "public class " \o name \o " {\n" \o impl.csharp_fields \o "}"

Accessors ==
    {"to_rust_string", "to_go_string", "to_python_string",
     "to_typescript_string", "to_java_string", "to_csharp_string"}

Accessor(fn) ==
    CASE fn = "to_rust_string" -> to_rust_string
      [] fn = "to_go_string" -> to_go_string
      [] fn = "to_python_string" -> to_python_string
      [] fn = "to_typescript_string" -> to_typescript_string
      [] fn = "to_java_string" -> to_java_string
      [] fn = "to_csharp_string" -> to_csharp_string

\* A call of one generated accessor; they exist once the macro has expanded.
Call ==
    /\ pc = "done"
    /\ \E fn \in Accessors : returned' = [fn |-> fn, s |-> Accessor(fn)]
    /\ UNCHANGED <<render, name, data_kind, fields, idx, rust_fields, go_fields,
                   python_fields, ts_fields, java_fields, csharp_fields, locals,
                   pc, panic_msg, impl>>

Next == ProcessField \/ FieldNamePanic \/ GoTypePanic \/ Generate \/ Call

Spec == Init /\ [][Next]_vars

(***************************************************************************)
(* One renderer, call by call.  render.stack holds a frame per call of     *)
(* rust_type_to_<lang>_type that has not returned: the type it was called  *)
(* with and the strings its recursive calls have returned so far.          *)
(***************************************************************************)
Languages == {"ts", "python", "go", "java", "csharp"}

\* SubExpressions in which Option passes on the type it was called with
SubExpressionsOptionItself(ty) ==
    CASE ty.k = "Path" ->
            IF LastSegment(ty) = "Option" /\ HasInnerType(ty)
            THEN <<ty>>
            ELSE IF LastSegment(ty) = "Vec" /\ HasInnerType(ty)
            THEN <<InnerType(ty)>>
            ELSE <<>>
      [] ty.k = "Array" -> <<ty.elem>>
      [] ty.k = "Tuple" -> ty.elems
      [] OTHER -> <<>>

\* the types a call passes to its recursive calls, in evaluation order
SubExpressions(ty) ==
    CASE ty.k = "Path" ->
            IF LastSegment(ty) \in {"Option", "Vec"} /\ HasInnerType(ty)
            THEN <<InnerType(ty)>>
            ELSE <<>>
      [] ty.k = "Array" -> <<ty.elem>>
      [] ty.k = "Tuple" -> ty.elems
      [] OTHER -> <<>>

\* the match arms of the five renderers, applied to the strings the
\* recursive calls returned
TsArm(ty, parts) ==
    CASE ty.k = "Path" ->
           LET last_segment == LastSegment(ty)
           IN  CASE last_segment = "Option" ->
                      IF HasInnerType(ty) THEN parts[1] \o " | null" ELSE "any"
                 [] last_segment = "Vec" ->
                      IF HasInnerType(ty) THEN TsVec(parts[1]) ELSE "any[]"
                 [] OTHER -> TsPrimitive(last_segment)
      [] ty.k = "Array" -> parts[1] \o "[]"
      [] ty.k = "Tuple" -> "[" \o Join(parts, ", ") \o "]"
      [] OTHER -> "any"

PythonArm(ty, parts) ==
    CASE ty.k = "Path" ->
           LET last_segment == LastSegment(ty)
           IN  CASE last_segment = "Option" ->
                      IF HasInnerType(ty)
                      THEN "Optional[" \o parts[1] \o "]"
                      ELSE PythonOptionFallback
                 [] last_segment = "Vec" ->
                      IF HasInnerType(ty)
                      THEN "List[" \o parts[1] \o "]"
                      ELSE "any[]"
                 [] OTHER -> PythonPrimitive(last_segment)
      [] ty.k = "Array" -> "List[" \o parts[1] \o "]"
      [] ty.k = "Tuple" -> "Tuple[" \o Join(parts, ", ") \o "]"
      [] OTHER -> "any"

GoArm(ty, parts) ==
    CASE ty.k = "Path" ->
           LET last_segment == LastSegment(ty)
           IN  CASE last_segment = "Option" ->
                      IF HasInnerType(ty) THEN Ok("*" \o parts[1]) ELSE Ok("any")
                 [] last_segment = "Vec" ->
                      IF HasInnerType(ty) THEN Ok("[]" \o parts[1]) ELSE Ok("any[]")
                 [] OTHER -> Ok(GoPrimitive(last_segment))
      [] ty.k = "Array" ->
           LET array_length == GoArrayLength(ty.len)
           IN  IF array_length.ok
               THEN Ok(GoArray(array_length.s, parts[1]))
               ELSE array_length
      [] ty.k = "Tuple" -> Ok(GoTuple(parts))
      [] OTHER -> Ok("any")

JavaArm(ty, parts) ==
    LET wrapped == [i \in 1..Len(parts) |->
                      convert_java_primitive_type_to_wrapper_class(parts[i])]
    IN  CASE ty.k = "Path" ->
               LET last_segment == LastSegment(ty)
               IN  CASE last_segment = "Option" ->
                          IF HasInnerType(ty) THEN wrapped[1] ELSE "Object"
                     [] last_segment = "Vec" ->
                          IF HasInnerType(ty)
                          THEN "List<" \o wrapped[1] \o ">"
                          ELSE "List<Object>"
                     [] OTHER -> JavaPrimitive(last_segment)
          [] ty.k = "Array" -> parts[1] \o "[]"
          [] ty.k = "Tuple" -> "Tuple<" \o Join(wrapped, ", ") \o ">"
          [] OTHER -> "Object"

CsharpArm(ty, parts) ==
    CASE ty.k = "Path" ->
           LET last_segment == LastSegment(ty)
           IN  CASE last_segment = "Option" ->
                      IF HasInnerType(ty) THEN parts[1] \o "?" ELSE "Object"
                 [] last_segment = "Vec" ->
                      IF HasInnerType(ty)
                      THEN "List<" \o parts[1] \o ">"
                      ELSE "List<Object>"
                 [] OTHER -> CsharpPrimitive(last_segment)
      [] ty.k = "Array" -> parts[1] \o "[]"
      [] ty.k = "Tuple" -> "(" \o Join(parts, ", ") \o ")"
      [] OTHER -> "Object"

\* what the call on top of the stack evaluates to once its recursive calls
\* have returned: [ok, s], a panic only in Go
Arm(lang, ty, parts) ==
    CASE lang = "ts" -> Ok(TsArm(ty, parts))
      [] lang = "python" -> Ok(PythonArm(ty, parts))
      [] lang = "go" -> GoArm(ty, parts)
      [] lang = "java" -> Ok(JavaArm(ty, parts))
      [] lang = "csharp" -> Ok(CsharpArm(ty, parts))

Frame(ty) == [ty |-> ty, parts |-> <<>>]

Top == render.stack[Len(render.stack)]

Running == render.status = "running" /\ render.stack # <<>>

\* the loop body calls one renderer with the type of the struct's one field
InitRender ==
    /\ name = "Name"
    /\ data_kind = "Struct"
    /\ \E ty \in Types, lang \in Languages :
          /\ fields = <<Field("a_field", ty)>>
          /\ render = [lang |-> lang, stack |-> <<Frame(ty)>>, calls |-> 1,
                       status |-> "running", result |-> Unset]
    /\ idx = 0
    /\ rust_fields = ""
    /\ go_fields = ""
    /\ python_fields = ""
    /\ ts_fields = ""
    /\ java_fields = ""
    /\ csharp_fields = ""
    /\ locals = NoLocals
    /\ pc = "loop"
    /\ panic_msg = ""
    /\ impl = NoImpl
    /\ returned = NoCall

\* the call on top of the stack makes its next recursive call
Recurse ==
    /\ Running
    /\ Len(Top.parts) < Len(SubExpressions(Top.ty))
    /\ render' = [render EXCEPT
                    !.stack = Append(@, Frame(SubExpressions(Top.ty)[Len(Top.parts) + 1])),
                    !.calls = @ + 1]
    /\ UNCHANGED <<name, data_kind, fields, idx, rust_fields, go_fields,
                   python_fields, ts_fields, java_fields, csharp_fields, locals,
                   pc, panic_msg, impl, returned>>

\* the call on top of the stack returns its string, to its caller or, the
\* outermost call, to the loop body
Return ==
    /\ Running
    /\ Len(Top.parts) = Len(SubExpressions(Top.ty))
    /\ LET r == Arm(render.lang, Top.ty, Top.parts)
           n == Len(render.stack)
       IN  /\ r.ok
           /\ render' =
                 IF n = 1
                 THEN [render EXCEPT !.stack = <<>>, !.status = "returned",
                                     !.result = r.s]
                 ELSE [render EXCEPT
                         !.stack = Append(SubSeq(@, 1, n - 2),
                                          [@[n - 1] EXCEPT !.parts = Append(@, r.s)])]
    /\ UNCHANGED <<name, data_kind, fields, idx, rust_fields, go_fields,
                   python_fields, ts_fields, java_fields, csharp_fields, locals,
                   pc, panic_msg, impl, returned>>

\* the call on top of the stack panics: every call is unwound
Unwind ==
    /\ Running
    /\ Len(Top.parts) = Len(SubExpressions(Top.ty))
    /\ LET r == Arm(render.lang, Top.ty, Top.parts)
       IN  /\ ~r.ok
           /\ render' = [render EXCEPT !.stack = <<>>, !.status = "panicked",
                                       !.result = r.s]
    /\ UNCHANGED <<name, data_kind, fields, idx, rust_fields, go_fields,
                   python_fields, ts_fields, java_fields, csharp_fields, locals,
                   pc, panic_msg, impl, returned>>

NextRender == Recurse \/ Return \/ Unwind

\* a call that can step does step: the renderers run on one thread and
\* nothing suspends them
SpecRender == InitRender /\ [][NextRender]_vars /\ WF_vars(NextRender)

(***************************************************************************)
(* Properties.  They read the loop body's values of the field visited      *)
(* last (locals) and the strings the accessors returned.                   *)
(***************************************************************************)
\* the loop body has run for some field
Visited == locals.field_name # Unset

\* the loop body has run to its end for the field visited last
Rendered == Visited /\ locals.go_type # Unset

\* the renderings of the field visited last, in the order of the table's
\* columns: Go, Python, TypeScript, Java, C#
RenderedRow ==
    <<locals.go_type, locals.python_type, locals.ts_type, locals.java_type,
      locals.csharp_type>>

TablePrimitives == {"i32", "u64", "f64", "bool", "String", "char"}

\* the table of the specification, section 4.2
SpecTable(p) ==
    CASE p = "i32" -> <<"int32", "int", "number", "int", "int">>
      [] p = "u64" -> <<"uint64", "int", "number", "long", "ulong">>
      [] p = "f64" -> <<"float64", "float", "number", "double", "double">>
      [] p = "bool" -> <<"bool", "bool", "boolean", "boolean", "bool">>
      [] p = "String" -> <<"string", "str", "string", "String", "string">>
      [] p = "char" -> <<"rune", "str", "string", "char", "char">>

\* the same table with Java's entry of u64 as the code has it
CodeTable(p) ==
    IF p = "u64" THEN <<"uint64", "int", "number", "BigInteger", "ulong">>
    ELSE SpecTable(p)

\* C1 as stated: a field of one of the six primitive types of the table
\* renders, in Go, Python, TypeScript, Java and C#, as the table's row.
C1_SpecTable ==
    \A p \in TablePrimitives :
        locals.field_type = Ident(p) => Rendered /\ RenderedRow = SpecTable(p)

\* C1 amended: a field of one of the six primitive types renders as the
\* table's row, with u64 rendered BigInteger (not long) in Java.
C1_PrimitiveTable ==
    \A p \in TablePrimitives :
        locals.field_type = Ident(p) => Rendered /\ RenderedRow = CodeTable(p)

C1_Witness ==
    /\ Rendered
    /\ locals.field_type = Ident("u64")
    /\ locals.java_type = "BigInteger"
    /\ locals.csharp_type = "ulong"

\* Optional(T): the Option wrapper with a type as its first argument
IsOptionalOf(ty) ==
    ty.k = "Path" /\ LastSegment(ty) = "Option" /\ HasInnerType(ty)

\* Sequence(T): the Vec wrapper with a type as its first argument
IsSequenceOf(ty) ==
    ty.k = "Path" /\ LastSegment(ty) = "Vec" /\ HasInnerType(ty)

JavaPrimitiveTypes ==
    {"byte", "short", "int", "long", "float", "double", "char", "boolean"}

\* the boxed wrapper class of a rendering that is a Java primitive, the
\* rendering itself otherwise
JavaBoxed(t) ==
    IF t \in JavaPrimitiveTypes
    THEN CASE t = "byte" -> "Byte" [] t = "short" -> "Short"
           [] t = "int" -> "Integer" [] t = "long" -> "Long"
           [] t = "float" -> "Float" [] t = "double" -> "Double"
           [] t = "char" -> "Character" [] t = "boolean" -> "Boolean"
    ELSE t

\* C2: a field of type Option<T> renders as Optional[T'] in Python, T' | null
\* in TypeScript, *T' in Go, T'? in C# and, in Java, as the wrapper class of
\* T' when T' is a Java primitive and as T' otherwise; T' is the language's
\* rendering of T.
C2_OptionalRendering ==
    LET ty == locals.field_type
    IN  (Visited /\ IsOptionalOf(ty)) =>
            LET T == InnerType(ty)
            IN  /\ locals.python_type
                      = "Optional[" \o rust_type_to_python_type(T) \o "]"
                /\ locals.ts_type = rust_type_to_ts_type(T) \o " | null"
                /\ rust_type_to_go_type(T).ok =>
                      /\ Rendered
                      /\ locals.go_type = "*" \o rust_type_to_go_type(T).s
                      /\ locals.csharp_type = rust_type_to_csharp_type(T) \o "?"
                      /\ locals.java_type = JavaBoxed(rust_type_to_java_type(T))

C2_Witness ==
    /\ Rendered
    /\ locals.field_type = OptionOf(VecOf(Ident("char")))
    /\ locals.java_type = "List<Character>"
    /\ locals.go_type = "*[]rune"

\* C3: a field of type Vec<T> renders as List[T'] in Python, T'[] in
\* TypeScript, []T' in Go, List<T'> in C# and List<B> in Java, B the wrapper
\* class of T' when T' is a Java primitive and T' otherwise, at every depth.
C3_SequenceRendering ==
    LET ty == locals.field_type
    IN  (Visited /\ IsSequenceOf(ty)) =>
            LET T == InnerType(ty)
            IN  /\ locals.python_type
                      = "List[" \o rust_type_to_python_type(T) \o "]"
                /\ locals.ts_type = rust_type_to_ts_type(T) \o "[]"
                /\ rust_type_to_go_type(T).ok =>
                      /\ Rendered
                      /\ locals.go_type = "[]" \o rust_type_to_go_type(T).s
                      /\ locals.csharp_type
                            = "List<" \o rust_type_to_csharp_type(T) \o ">"
                      /\ locals.java_type
                            = "List<" \o JavaBoxed(rust_type_to_java_type(T)) \o ">"

C3_Witness ==
    /\ Rendered
    /\ locals.field_type = VecOf(OptionOf(Ident("i32")))
    /\ locals.ts_type = "number | null[]"
    /\ locals.java_type = "List<Integer>"
    /\ locals.go_type = "[]*int32"

\* a fixed-array length that is an integer literal with a usize value
IsUsizeLiteral(len) == len.e = "LitInt" /\ Base10ParseUsize(len.text).ok

\* that value, in decimal
LiteralValue(len) == Base10ParseUsize(len.text).s

\* C4 as stated: a field of type [T; n] renders as [n]T' in Go and, in
\* TypeScript, Python, Java and C#, as the same renderer renders Vec<T>.
C4_ArrayAsSequence ==
    LET ty == locals.field_type
    IN  (Visited /\ ty.k = "Array" /\ IsUsizeLiteral(ty.len)) =>
            LET T == ty.elem
            IN  /\ locals.ts_type = rust_type_to_ts_type(VecOf(T))
                /\ locals.python_type = rust_type_to_python_type(VecOf(T))
                /\ rust_type_to_go_type(T).ok =>
                      /\ Rendered
                      /\ locals.go_type
                            = "[" \o LiteralValue(ty.len) \o "]"
                              \o rust_type_to_go_type(T).s
                      /\ locals.java_type = rust_type_to_java_type(VecOf(T))
                      /\ locals.csharp_type = rust_type_to_csharp_type(VecOf(T))

\* C4 amended: a field of type [T; n] renders as [n]T' in Go, as the same
\* renderer renders Vec<T> in TypeScript and Python, and as T'[] (T' not
\* boxed) in Java and C#, which is not their rendering of Vec<T>.
C4_FixedArrayRendering ==
    LET ty == locals.field_type
    IN  (Visited /\ ty.k = "Array" /\ IsUsizeLiteral(ty.len)) =>
            LET T == ty.elem
            IN  /\ locals.ts_type = rust_type_to_ts_type(VecOf(T))
                /\ locals.python_type = rust_type_to_python_type(VecOf(T))
                /\ rust_type_to_go_type(T).ok =>
                      /\ Rendered
                      /\ locals.go_type
                            = "[" \o LiteralValue(ty.len) \o "]"
                              \o rust_type_to_go_type(T).s
                      /\ locals.java_type = rust_type_to_java_type(T) \o "[]"
                      /\ locals.java_type # rust_type_to_java_type(VecOf(T))
                      /\ locals.csharp_type = rust_type_to_csharp_type(T) \o "[]"
                      /\ locals.csharp_type # rust_type_to_csharp_type(VecOf(T))

C4_Witness ==
    /\ Rendered
    /\ locals.field_type = Array(VecOf(Ident("i32")), LitInt("3"))
    /\ locals.go_type = "[3][]int32"
    /\ locals.ts_type = "number[][]"
    /\ locals.java_type = "List<Integer>[]"

RECURSIVE GoRenderable(_)
\* no fixed array with a length other than a usize literal, at any position
\* the Go renderer descends to
GoRenderable(ty) ==
    CASE ty.k = "Path" ->
            (LastSegment(ty) \in {"Option", "Vec"} /\ HasInnerType(ty))
                => GoRenderable(InnerType(ty))
      [] ty.k = "Array" -> IsUsizeLiteral(ty.len) /\ GoRenderable(ty.elem)
      [] ty.k = "Tuple" -> \A i \in 1..Len(ty.elems) : GoRenderable(ty.elems[i])
      [] OTHER -> TRUE

\* the Go renderings of a tuple's elements, as a parenthesised list
GoElementList(ty) ==
    "(" \o Join([i \in 1..Len(ty.elems) |-> rust_type_to_go_type(ty.elems[i]).s],
                ", ") \o ")"

\* C5 as stated: the Go rendering of a tuple never panics, whatever the
\* element types, and contains a marker of non-support and the element list.
C5_TupleNeverFails ==
    LET ty == locals.field_type
    IN  (Visited /\ ty.k = "Tuple") =>
            /\ Rendered
            /\ pc # "panicked"
            /\ Contains(locals.go_type, "UNSUPPORTED")
            /\ Contains(locals.go_type, GoElementList(ty))

\* C5 amended: the Go rendering of a tuple none of whose elements holds a
\* fixed array with a non-literal length never panics and is the marker
\* followed by the parenthesised list of the elements' Go renderings.
C5_TupleDegradation ==
    LET ty == locals.field_type
    IN  (Visited /\ ty.k = "Tuple" /\ GoRenderable(ty)) =>
            /\ Rendered
            /\ locals.go_type
                  = "struct{} // CANNOT CONVERT THIS TO THE GO PROGRAMMING LANGUAGE. TUPLES ARE UNSUPPORTED BY GO: "
                    \o GoElementList(ty)

C5_Witness ==
    /\ Rendered
    /\ locals.field_type = Tuple(<<Ident("i32"), OptionOf(Ident("String"))>>)
    /\ Contains(locals.go_type, "UNSUPPORTED BY GO: (int32, *string)")

RECURSIVE DeclaredType(_)
\* the type expression as declared, written without any space
DeclaredType(ty) ==
    LET Each(ts) == [i \in 1..Len(ts) |-> DeclaredType(ts[i])]
    IN  CASE ty.k = "Path" ->
               Join(ty.segs, "::")
               \o (IF ty.angle THEN "<" \o Join(Each(ty.args), ",") \o ">" ELSE "")
          [] ty.k = "Lifetime" -> "'" \o ty.ident
          [] ty.k = "Array" -> "[" \o DeclaredType(ty.elem) \o ";" \o ty.len.text \o "]"
          [] ty.k = "Tuple" ->
               "(" \o Join(Each(ty.elems), ",")
               \o (IF Len(ty.elems) = 1 THEN "," ELSE "") \o ")"
          [] ty.k = "Reference" -> "&" \o DeclaredType(ty.elem)

\* Named(id): a path that is no primitive and neither wrapper
IsNamed(ty) ==
    ty.k = "Path" /\ LastSegment(ty) \notin PrimitiveNames \cup {"Option", "Vec"}

\* a bare identifier: one segment, no generic arguments
IsBareIdent(ty) == ty.k = "Path" /\ Len(ty.segs) = 1 /\ ~ty.angle

\* C6 as stated: a field of a Named type, qualified paths and types with
\* generic arguments included, renders as its name string, the same in all
\* six languages.
C6_NamedSameInAllSix ==
    LET ty == locals.field_type
    IN  (Visited /\ IsNamed(ty)) =>
            /\ Rendered
            /\ \A r \in {locals.field_type_tokens, locals.go_type,
                         locals.python_type, locals.ts_type, locals.java_type,
                         locals.csharp_type} : r = DeclaredType(ty)

\* C6 amended: a field of a Named type renders as the identifier of its last
\* path segment in Go, Python, TypeScript, Java and C# and as the declared
\* type expression in Rust; the six agree when the type is a bare identifier.
C6_NamedFallback ==
    LET ty == locals.field_type
    IN  (Visited /\ IsNamed(ty)) =>
            /\ Rendered
            /\ \A r \in {locals.go_type, locals.python_type, locals.ts_type,
                         locals.java_type, locals.csharp_type} :
                    r = LastSegment(ty)
            /\ locals.field_type_tokens = DeclaredType(ty)
            /\ IsBareIdent(ty) => locals.field_type_tokens = LastSegment(ty)

C6_Witness ==
    /\ Rendered
    /\ locals.field_type = Path(<<"models", "Foo">>)
    /\ locals.field_type_tokens = "models::Foo"
    /\ locals.ts_type = "Foo"
    /\ locals.java_type = "Foo"

\* C7: to_rust_string() returns "struct <Name> {", a newline, one line
\* "    <field>: <type>" per field with <type> the declared type without
\* spaces, the lines separated by a comma and a newline and no comma after
\* the last one, a newline and "}"; also for no field and for one field.
C7_RustBlock ==
    returned.fn = "to_rust_string" =>
        returned.s
            = "struct " \o name \o " {\n"
              \o Join([i \in 1..Len(fields) |->
                          "    " \o fields[i].ident \o ": "
                          \o DeclaredType(fields[i].ty)], ",\n")
              \o "\n}"

C7_Witness ==
    /\ returned.fn = "to_rust_string"
    /\ name = "Name"
    /\ fields = <<Field("b_field", Array(Ident("i32"), LitInt("3"))),
                  Field("a_field", Tuple(<<Ident("i32"), Ident("String")>>))>>
    /\ returned.s
          = "struct Name {\n    b_field: [i32;3],\n    a_field: (i32,String)\n}"

\* the Option wrapper by name, with or without arguments
IsOptionWrapper(ty) == ty.k = "Path" /\ LastSegment(ty) = "Option"

\* the block of the TypeScript accessor when the fields i with marked[i]
\* carry the presence suffix
TsBlock(marked) ==
    "interface " \o name \o " {\n"
    \o Join([i \in 1..Len(fields) |->
                "    " \o fields[i].ident
                \o (IF marked[i] THEN "?" ELSE "")
                \o ": " \o rust_type_to_ts_type(fields[i].ty) \o ";\n"], "")
    \o "}"

\* C8 as stated: to_typescript_string() returns "interface <Name> {", a
\* newline, one line "    <field>[?]: <type>;" per field and "}", with the
\* suffix ? exactly on the fields of type Option<T>, and no ? in a type.
C8_MarkedIffOptionalOf ==
    returned.fn = "to_typescript_string" =>
        /\ returned.s = TsBlock([i \in 1..Len(fields) |-> IsOptionalOf(fields[i].ty)])
        /\ \A i \in 1..Len(fields) :
              ~Contains(rust_type_to_ts_type(fields[i].ty), "?")

\* C8 amended: the same block, with the suffix ? exactly on the fields whose
\* type is the Option wrapper by name: Option<T>, and also Option without a
\* type argument; an Option inside a Vec, array or tuple does not mark.
C8_TypescriptBlock ==
    returned.fn = "to_typescript_string" =>
        /\ returned.s = TsBlock([i \in 1..Len(fields) |-> IsOptionWrapper(fields[i].ty)])
        /\ \A i \in 1..Len(fields) :
              ~Contains(rust_type_to_ts_type(fields[i].ty), "?")

C8_Witness ==
    /\ returned.fn = "to_typescript_string"
    /\ name = "Point"
    /\ fields = <<Field("a_field", OptionOf(Ident("i32"))),
                  Field("b_field", VecOf(OptionOf(Ident("i32"))))>>
    /\ returned.s
          = "interface Point {\n    a_field?: number | null;\n    b_field: number | null[];\n}"

RECURSIVE SplitLines(_)
\* the lines of a string: the pieces between its newlines
SplitLines(s) ==
    IF ~Contains(s, "\n") THEN <<s>>
    ELSE LET i == CHOOSE j \in 1..Len(s) :
                     /\ SubSeq(s, j, j) = "\n"
                     /\ \A h \in 1..(j - 1) : SubSeq(s, h, h) # "\n"
         IN  <<SubSeq(s, 1, i - 1)>> \o SplitLines(SubSeq(s, i + 1, Len(s)))

IsFieldLine(line) == StartsWith(line, "    ")

\* the field lines of a block: its indented lines
FieldLines(block) == SelectSeq(SplitLines(block), IsFieldLine)

\* the field line of accessor fn names the field id
NamesField(fn, line, id) ==
    CASE fn \in {"to_rust_string", "to_python_string"} ->
            StartsWith(line, "    " \o id \o ": ")
      [] fn = "to_typescript_string" ->
            StartsWith(line, "    " \o id \o ": ")
            \/ StartsWith(line, "    " \o id \o "?: ")
      [] fn = "to_go_string" -> StartsWith(line, "    " \o id \o " ")
      [] fn \in {"to_java_string", "to_csharp_string"} ->
            StartsWith(line, "    public ") /\ EndsWith(line, " " \o id \o ";")

\* C9: once the loop has run over k fields without a panic, each of the six
\* blocks has exactly k field lines and the i-th field line names the i-th
\* declared field.
C9_FieldOrder ==
    returned.fn # "none" =>
        LET lines == FieldLines(returned.s)
        IN  /\ Len(lines) = Len(fields)
            /\ \A i \in 1..Len(fields) :
                  NamesField(returned.fn, lines[i], fields[i].ident)

C9_Witness ==
    /\ returned.fn = "to_go_string"
    /\ Len(fields) = 2
    /\ fields[1].ident = "c_field"
    /\ fields[2].ident = "a_field"
    /\ fields[1].ty.k = "Tuple"
    /\ StartsWith(FieldLines(returned.s)[2], "    a_field ")

RECURSIVE HasNonLiteralLength(_)
\* a fixed array whose length is no integer literal, at the top of the type
\* or nested inside an Option, Vec, array or tuple
HasNonLiteralLength(ty) ==
    CASE ty.k = "Path" ->
            /\ LastSegment(ty) \in {"Option", "Vec"}
            /\ HasInnerType(ty)
            /\ HasNonLiteralLength(InnerType(ty))
      [] ty.k = "Array" -> ty.len.e # "LitInt" \/ HasNonLiteralLength(ty.elem)
      [] ty.k = "Tuple" ->
            \E i \in 1..Len(ty.elems) : HasNonLiteralLength(ty.elems[i])
      [] OTHER -> FALSE

\* the fields the loop stops at: those with a non-literal array length
Offending == {i \in 1..Len(fields) : HasNonLiteralLength(fields[i].ty)}

\* C10 as stated: a struct with a non-literal array length in any field, at
\* any depth, yields no output string at all, and once the macro has stopped
\* it has panicked with a message that identifies the offending field.
C10_AbortIdentifiesField ==
    (data_kind = "Struct" /\ Offending # {}) =>
        /\ impl = NoImpl
        /\ returned = NoCall
        /\ pc # "loop" =>
              /\ pc = "panicked"
              /\ idx + 1 \in Offending
              /\ Contains(panic_msg, fields[idx + 1].ident)

\* what the code does keep of C10: no output string, and a panic at the
\* first offending field
C10_AbortsWithoutOutput ==
    (data_kind = "Struct" /\ Offending # {}) =>
        /\ impl = NoImpl
        /\ returned = NoCall
        /\ pc # "loop" =>
              /\ pc = "panicked"
              /\ idx + 1 \in Offending
              /\ \A i \in 1..idx : i \notin Offending
              /\ StartsWith(panic_msg, "Invalid array length expression:")

C10_Witness ==
    /\ pc = "panicked"
    /\ Len(fields) = 2
    /\ idx = 1
    /\ fields[2].ty = Array(Ident("i32"), ExprPath("N"))
    /\ panic_msg = "Invalid array length expression:"

\* the fields generation cannot pass: a field without a name, or a type in
\* which the Go renderer meets a fixed array whose length is no integer
\* literal or an integer literal beyond usize
Aborting ==
    {i \in 1..Len(fields) : ~fields[i].named \/ ~GoRenderable(fields[i].ty)}

RECURSIVE HasOversizedLength(_)
\* a fixed array whose length is an integer literal beyond usize, where the
\* Go renderer descends to
HasOversizedLength(ty) ==
    CASE ty.k = "Path" ->
            /\ LastSegment(ty) \in {"Option", "Vec"}
            /\ HasInnerType(ty)
            /\ HasOversizedLength(InnerType(ty))
      [] ty.k = "Array" ->
            (ty.len.e = "LitInt" /\ ~IsUsizeLiteral(ty.len))
            \/ HasOversizedLength(ty.elem)
      [] ty.k = "Tuple" ->
            \E i \in 1..Len(ty.elems) : HasOversizedLength(ty.elems[i])
      [] OTHER -> FALSE

\* C11 as stated: the macro aborts on a non-literal fixed-array length and
\* on nothing else; not on a field without a name, not on an integer
\* literal of any magnitude.
C11_OnlyNonLiteralLengthAborts ==
    pc = "panicked" => idx + 1 \in Offending

\* C11 amended: the macro aborts at the first field that has no name or
\* whose type holds a fixed array with a non-literal length or with an
\* integer literal beyond usize, and on nothing else; every other struct
\* is generated, and a type outside the shape set (a reference) renders as
\* the language's unknown sentinel, any or Object.
C11_AbortConditions ==
    /\ pc = "panicked" =>
          /\ idx + 1 \in Aborting
          /\ \A i \in 1..idx : i \notin Aborting
          /\ LET f == fields[idx + 1]
             IN  \/ ~f.named /\ panic_msg = "Field name not found"
                 \/ f.named /\ HasNonLiteralLength(f.ty)
                 \/ f.named /\ HasOversizedLength(f.ty)
    /\ pc = "done" => Aborting = {} /\ impl # NoImpl
    /\ (InLoop /\ idx + 1 \notin Aborting) =>
          NextField.named /\ rust_type_to_go_type(NextField.ty).ok
    /\ (Visited /\ locals.field_type.k = "Reference") =>
          /\ Rendered
          /\ RenderedRow = <<"any", "any", "any", "Object", "Object">>

C11_Witness ==
    /\ pc = "panicked"
    /\ fields = <<Field("a_field",
                        Array(Ident("i32"), LitInt("18446744073709551616")))>>
    /\ panic_msg = "called Result::unwrap() on an Err value"
    /\ impl = NoImpl

\* Option or Vec written with zero generic arguments: bare, or with empty
\* angle brackets
HasZeroArguments(ty) ==
    /\ ty.k = "Path"
    /\ LastSegment(ty) \in {"Option", "Vec"}
    /\ Len(ty.args) = 0

\* C12: a field whose type is Option or Vec with zero generic arguments
\* fails in no renderer; Option renders as any in TypeScript, Python and Go
\* and as Object in Java and C#, Vec as any[] and as List<Object>; the
\* generation of all six blocks completes and every accessor returns.
C12_ZeroArgumentFallback ==
    /\ (InLoop /\ HasZeroArguments(NextField.ty)) =>
          rust_type_to_go_type(NextField.ty).ok
    /\ (Visited /\ HasZeroArguments(locals.field_type)) =>
          /\ Rendered
          /\ pc # "panicked"
          /\ RenderedRow =
                IF LastSegment(locals.field_type) = "Option"
                THEN <<"any", "any", "any", "Object", "Object">>
                ELSE <<"any[]", "any[]", "any[]", "List<Object>", "List<Object>">>
    /\ (pc = "panicked" /\ NextField.named) =>
          ~HasZeroArguments(NextField.ty)
    /\ (\A i \in 1..Len(fields) :
            fields[i].named /\ HasZeroArguments(fields[i].ty)) =>
          /\ pc \in {"loop", "done"}
          /\ pc = "done" =>
                /\ impl # NoImpl
                /\ \A fn \in Accessors : Contains(Accessor(fn), name)
          /\ returned # NoCall => returned.s = Accessor(returned.fn)

C12_Witness ==
    /\ pc = "done"
    /\ fields = <<Field("a_field", Generic(<<"Option">>, <<>>))>>
    /\ locals.python_type = "any"
    /\ locals.java_type = "Object"
    /\ returned.fn = "to_python_string"
    /\ Contains(returned.s, "a_field: any")

\* the primitive kinds: every integer width, the floats, bool, char, String
\* and the string slice &str
IsPrimitiveKind(ty) ==
    \/ ty \in {Ident(p) : p \in PrimitiveNames}
    \/ ty = Reference(Ident("str"))

\* the names the TypeScript and Python tables have an arm for
NarrowTableNames ==
    {"i32", "u32", "i64", "u64", "f32", "f64", "bool", "String", "char"}

\* what the table of each language can yield
TsTableEntries == {TsPrimitive(p) : p \in NarrowTableNames}
PythonTableEntries == {PythonPrimitive(p) : p \in NarrowTableNames}
GoTableEntries == {GoPrimitive(p) : p \in PrimitiveNames \cup {"&str"}}
JavaTableEntries == {JavaPrimitive(p) : p \in PrimitiveNames}
CsharpTableEntries == {CsharpPrimitive(p) : p \in PrimitiveNames}

\* C13 as stated: a field of any primitive kind (i8 .. u128, f32, f64, bool,
\* char, String, &str) is rendered by each of the five renderers as an
\* entry of that language's primitive table, never as the bare name of the
\* Named fallback and never as the unknown sentinel.
C13_PrimitivesUseTable ==
    (Visited /\ IsPrimitiveKind(locals.field_type)) =>
        /\ Rendered
        /\ locals.ts_type \in TsTableEntries
        /\ locals.python_type \in PythonTableEntries
        /\ locals.go_type \in GoTableEntries
        /\ locals.java_type \in JavaTableEntries
        /\ locals.csharp_type \in CsharpTableEntries

C13_Witness ==
    /\ pc = "done"
    /\ locals.field_type = Ident("u8")
    /\ locals.ts_type = "u8"
    /\ locals.python_type = "u8"
    /\ locals.go_type = "uint8"

RECURSIVE Sum(_)
Sum(ns) == IF ns = <<>> THEN 0 ELSE Head(ns) + Sum(Tail(ns))

RECURSIVE Max(_)
Max(ns) ==
    IF ns = <<>> THEN 0
    ELSE LET m == Max(Tail(ns)) IN IF Head(ns) > m THEN Head(ns) ELSE m

\* the direct sub-expressions of a type expression, whatever its arguments
Operands(ty) ==
    CASE ty.k = "Path" -> SelectSeq(ty.args, LAMBDA a : a.k # "Lifetime")
      [] ty.k = "Array" -> <<ty.elem>>
      [] ty.k = "Tuple" -> ty.elems
      [] ty.k = "Reference" -> <<ty.elem>>
      [] OTHER -> <<>>

RECURSIVE Size(_)
\* the number of nodes of a type expression
Size(ty) ==
    LET ops == Operands(ty)
    IN  1 + Sum([i \in 1..Len(ops) |-> Size(ops[i])])

RECURSIVE Depth(_)
\* the number of levels of a type expression
Depth(ty) ==
    LET ops == Operands(ty)
    IN  1 + Max([i \in 1..Len(ops) |-> Depth(ops[i])])

RECURSIVE ClosedShape(_)
\* a tree of Primitive, Optional, Sequence, FixedArray with a usize literal
\* length, Tuple and Named
ClosedShape(ty) ==
    CASE ty.k = "Path" ->
            IF LastSegment(ty) \in {"Option", "Vec"}
            THEN /\ Len(ty.segs) = 1
                 /\ Len(ty.args) = 1
                 /\ HasInnerType(ty)
                 /\ ClosedShape(InnerType(ty))
            ELSE ty.args = <<>>
      [] ty.k = "Array" -> IsUsizeLiteral(ty.len) /\ ClosedShape(ty.elem)
      [] ty.k = "Tuple" ->
            \A i \in 1..Len(ty.elems) : ClosedShape(ty.elems[i])
      [] OTHER -> FALSE

\* the type the traced renderer was called with by the loop body
Root == fields[1].ty

\* what the recursive definition of the traced renderer yields for a type
Recursive(lang, ty) ==
    CASE lang = "ts" -> Ok(rust_type_to_ts_type(ty))
      [] lang = "python" -> Ok(rust_type_to_python_type(ty))
      [] lang = "go" -> rust_type_to_go_type(ty)
      [] lang = "java" -> Ok(rust_type_to_java_type(ty))
      [] lang = "csharp" -> Ok(rust_type_to_csharp_type(ty))

\* the calls still to be made and to return: two for every node no call
\* has been made for yet (its call and its return, less one for the node
\* the count starts from), one for every call on the stack
Remaining(r) ==
    LET n == Len(r.stack)
        Unstarted(i) ==
            LET subs == SubExpressions(r.stack[i].ty)
                from == Len(r.stack[i].parts) + (IF i = n THEN 1 ELSE 2)
            IN  Sum([j \in 1..(Len(subs) - from + 1) |->
                        2 * Size(subs[from + j - 1])])
    IN  Sum([i \in 1..n |-> 1 + Unstarted(i)])

\* C14, the state part: every call on the stack but the outermost was made
\* by the call below it, with a direct sub-expression of that call's type,
\* which is strictly smaller; the stack is never deeper than the tree; a
\* call whose type is a Primitive or Named leaf makes no call; the call
\* count never exceeds the tree's nodes; for a tree of the closed shape
\* set no call panics and the outermost call returns, after one call per
\* node, the string the recursive definition gives.
C14_Frames ==
    render.status # "idle" =>
        /\ \A i \in 2..Len(render.stack) :
              LET caller == render.stack[i - 1]
                  callee == render.stack[i]
              IN  /\ Len(caller.parts) < Len(Operands(caller.ty))
                  /\ callee.ty = Operands(caller.ty)[Len(caller.parts) + 1]
                  /\ Size(callee.ty) < Size(caller.ty)
        /\ Len(render.stack) <= Depth(Root)
        /\ render.calls <= Size(Root)
        /\ (Running /\ Operands(Top.ty) = <<>>) =>
              /\ Top.parts = <<>>
              /\ SubExpressions(Top.ty) = <<>>
        /\ Running \/ (render.stack = <<>> /\ render.status \in {"returned", "panicked"})
        /\ render.status = "returned" =>
              /\ Recursive(render.lang, Root).ok
              /\ render.result = Recursive(render.lang, Root).s
        /\ render.status = "panicked" =>
              /\ render.lang = "go"
              /\ ~GoRenderable(Root)
              /\ render.result = rust_type_to_go_type(Root).s
        /\ ClosedShape(Root) =>
              /\ render.status # "panicked"
              /\ render.status = "returned" => render.calls = Size(Root)

\* C14: for every finite tree of Primitive, Optional, Sequence, FixedArray
\* with a literal length, Tuple and Named, nested wrappers such as
\* Option<Option<i32>> and Vec<Option<..>> included, each of the five
\* renderers recurses once per level on a strictly smaller sub-expression,
\* the recursion ends at the Primitive and Named leaves, and the renderer
\* returns a string without failing: the frames are as C14_Frames says,
\* every call and return lowers the count of those remaining, and the
\* outermost call of a tree of the closed shape set returns in the end.
C14_RecursionTerminates ==
    /\ []C14_Frames
    /\ [][Remaining(render') < Remaining(render)]_vars
    /\ <>(render.status # "running")
    /\ [](ClosedShape(Root) => <>(render.status = "returned"))

C14_Witness ==
    /\ render.status = "returned"
    /\ render.lang = "java"
    /\ Root = OptionOf(OptionOf(Ident("i32")))
    /\ render.calls = 3
    /\ render.result = "Integer"

====
